---------------------------- MODULE Spec2Model ----------------------------
(* A model of meshio's Medit reader and writer (src/meshio/medit_io.py):    *)
(* the token stream _ItemReader, the keyword loop of read_buffer and the    *)
(* sequential emission of write.  Text is modelled as text: lines are       *)
(* strings, tokens are substrings, numbers are parsed from and formatted to *)
(* their numerals, exponent notation, inf and nan included.  The reader is  *)
(* followed from one next(self._file) to the next, so the states in which   *)
(* it waits for its source in the middle of a block are states of the model.*)
EXTENDS Integers, Sequences, FiniteSets, TLC

VARIABLES
    file,          \* the lines the line source has yielded or will yield, in order
    eof,           \* TRUE when the line source holds no line after those of file
    pos,           \* how many lines of file next(self._file) has handed out
    line,          \* _ItemReader._line: the tokens of the line last loaded
    line_ptr,      \* _ItemReader._line_ptr: the cursor into line (0-based)
    dim,           \* read_buffer: dim
    points,        \* read_buffer: points ([bound |-> FALSE] until line 113 binds it)
    point_data,    \* read_buffer: point_data
    cells,         \* read_buffer: cells
    cell_data,     \* read_buffer: cell_data
    status,        \* "running", "returned" or "failed"
    error,         \* the failure raised, "" when none
    hist,          \* history of the run: what was pulled, warned and seen
    pc,            \* where read_buffer stands: the pull it waits in, the turn's locals
    build,         \* the build the program runs in: one of Builds
    mesh,          \* the snapshot handed to write
    wout           \* what write did: its status and the lines it wrote

vars == <<file, eof, pos, line, line_ptr, dim, points, point_data, cells,
          cell_data, status, error, hist, pc, build, mesh, wout>>

-----------------------------------------------------------------------------
(* Characters and strings *)

\* Op applied to the value of v, which is evaluated once
Bind(v, Op(_)) == CHOOSE y \in {Op(x) : x \in {v}} : TRUE

Char(s, i) == SubSeq(s, i, i)

\* the characters str.strip() removes and \s matches, among those of the inputs
Whitespace == {" ", "\t", "\n", "\r"}

Digits == <<"0", "1", "2", "3", "4", "5", "6", "7", "8", "9">>

IsDigit(c) == \E d \in 1..10 : Digits[d] = c

DigitVal(c) == (CHOOSE d \in 1..10 : Digits[d] = c) - 1

Letters == {"a", "b", "c", "d", "e", "f", "g", "h", "i", "j", "k", "l", "m",
            "n", "o", "p", "q", "r", "s", "t", "u", "v", "w", "x", "y", "z",
            "A", "B", "C", "D", "E", "F", "G", "H", "I", "J", "K", "L", "M",
            "N", "O", "P", "Q", "R", "S", "T", "U", "V", "W", "X", "Y", "Z"}

\* the pieces of text written one after the other, as one text
RECURSIVE Concat(_)
Concat(chunks) == IF Len(chunks) = 0 THEN "" ELSE Head(chunks) \o Concat(Tail(chunks))

\* str.isalpha(): at least one character, and every character a letter
isalpha(s) == Len(s) > 0 /\ \A i \in 1..Len(s) : Char(s, i) \in Letters

RECURSIVE lstrip(_)
lstrip(s) ==
    IF Len(s) > 0 /\ Char(s, 1) \in Whitespace
    THEN Bind(SubSeq(s, 2, Len(s)), LAMBDA t : lstrip(t))
    ELSE s

RECURSIVE rstrip(_)
rstrip(s) ==
    IF Len(s) > 0 /\ Char(s, Len(s)) \in Whitespace
    THEN Bind(SubSeq(s, 1, Len(s) - 1), LAMBDA t : rstrip(t))
    ELSE s

\* str.strip()
strip(s) == Bind(lstrip(s), LAMBDA t : rstrip(t))

\* the index of the first whitespace character of s, 0 when it has none
RECURSIVE FirstSpace(_, _)
FirstSpace(s, i) ==
    IF i > Len(s) THEN 0
    ELSE IF Char(s, i) \in Whitespace THEN i
    ELSE FirstSpace(s, i + 1)

\* re.compile(r"\s+").split(s): the pieces of s between its whitespace runs;
\* a run at either end of s leaves an empty piece there
RECURSIVE re_split(_)
re_split(s) ==
    Bind(FirstSpace(s, 1), LAMBDA i :
        IF i = 0 THEN <<s>>
        ELSE Bind(lstrip(SubSeq(s, i, Len(s))), LAMBDA rest :
                 <<SubSeq(s, 1, i - 1)>> \o re_split(rest)))


-----------------------------------------------------------------------------
(* _ItemReader: the token stream *)

Min(a, b) == IF a < b THEN a ELSE b

\* _ItemReader.__init__
ItemReader == [pos |-> 0, line |-> <<>>, line_ptr |-> 0]

\* a faulty skipped: comment lines are read as tokens
skipped_blank_only(l) == Len(l) = 0

\* the test of the skip loop: "not line or line[0] == '#'" on a stripped line
skipped(l) == Len(l) = 0 \/ Char(l, 1) = "#"

\* Load the next line: next(self._file).strip() until a line is neither empty
\* nor a comment.  p lines of f are consumed already.  "stop" is StopIteration;
\* "starved" says the source has not yet yielded its next line.
RECURSIVE load(_, _, _)
load(f, e, p) ==
    IF p >= Len(f)
    THEN [st |-> IF e THEN "stop" ELSE "starved", pos |-> p, text |-> ""]
    ELSE Bind(strip(f[p + 1]), LAMBDA l :
             IF skipped(l) THEN load(f, e, p + 1)
             ELSE [st |-> "ok", pos |-> p + 1, text |-> l])

\* a faulty n_read, by which the theorems are tried: the whole rest of the line
n_read_rest_of_line(n, have, avail) == avail

\* n_read = min(n - len(items), len(self._line) - self._line_ptr)
n_read(n, have, avail) == Min(n - have, avail)

\* a faulty refill: a new line is loaded while one token of the line is left
refill_early(f, e, r) ==
    IF r.line_ptr + 1 >= Len(r.line)
    THEN Bind(load(f, e, r.pos), LAMBDA ld :
             IF ld.st = "ok"
             THEN [st |-> "ok",
                   r |-> [pos |-> ld.pos, line |-> re_split(ld.text), line_ptr |-> 0]]
             ELSE [st |-> ld.st, r |-> [r EXCEPT !.pos = ld.pos]])
    ELSE [st |-> "ok", r |-> r]

\* lines 42-49: the line and cursor next_items takes its tokens from, a new
\* line being loaded when the cursor is at the end of the current one
refill(f, e, r) ==
    IF r.line_ptr >= Len(r.line)
    THEN Bind(load(f, e, r.pos), LAMBDA ld :
             IF ld.st = "ok"
             THEN [st |-> "ok",
                   r |-> [pos |-> ld.pos, line |-> re_split(ld.text), line_ptr |-> 0]]
             ELSE [st |-> ld.st, r |-> [r EXCEPT !.pos = ld.pos]])
    ELSE [st |-> "ok", r |-> r]

\* lines 50-52: take n_read tokens from the line
take(r, items, n) ==
    Bind(n_read(n, Len(items), Len(r.line) - r.line_ptr), LAMBDA k :
        [r |-> [r EXCEPT !.line_ptr = r.line_ptr + k],
         items |-> items \o SubSeq(r.line, r.line_ptr + 1, r.line_ptr + k)])

\* the while loop of next_items, entered with the items gathered so far
RECURSIVE next_items_loop(_, _, _, _, _)
next_items_loop(f, e, r, items, n) ==
    IF ~(Len(items) < n) THEN [st |-> "ok", items |-> items, r |-> r]
    ELSE Bind(refill(f, e, r), LAMBDA ld :
             IF ld.st # "ok" THEN [st |-> ld.st, items |-> items, r |-> ld.r]
             ELSE Bind(take(ld.r, items, n), LAMBDA t :
                      next_items_loop(f, e, t.r, t.items, n)))

\* _ItemReader.next_items(n)
next_items(f, e, r, n) == next_items_loop(f, e, r, <<>>, n)

\* _ItemReader.next_item()
next_item(f, e, r) ==
    Bind(next_items(f, e, r, 1), LAMBDA res :
        [st |-> res.st, item |-> IF res.st = "ok" THEN res.items[1] ELSE "",
         r |-> res.r])

-----------------------------------------------------------------------------
(* The build the program runs in.  Two things the source leaves to it: how   *)
(* "%r" prints a numpy.float64 (its digits alone before numpy 2, wrapped in  *)
(* np.float64(...) from numpy 2 on), and what the store into an integer      *)
(* array of a float that has no place there, one that is not finite or lies  *)
(* beyond the integer type, gives (an exception, or the C cast, which is     *)
(* undefined there: the least integer for each such value, or the nearest    *)
(* end of the range and 0 for nan).                                          *)

Builds ==
    [float_repr : {"plain", "typed"}, cast : {"raises", "least", "saturates"}]

\* the builds told apart by what a read does, which formats no float, and by
\* what a write does, which stores no float into an integer array
ReadBuilds == {b \in Builds : b.float_repr = "plain"}
WriteBuilds == {b \in Builds : b.cast = "raises"}

\* the ends of the integer type of an array of dtype int, 64 bits wide.  An
\* integer of the program that lies beyond the integers of this model, which
\* end at 2147483647, is held as its decimal numeral.
INT_MAX == "9223372036854775807"
INT_MIN == "-9223372036854775808"

-----------------------------------------------------------------------------
(* Numbers and their text.  A float is kept as the decimal it was read from  *)
(* or holds: k says whether it is finite ("fin"), infinite ("inf") or not a  *)
(* number ("nan"), s is its sign, and a finite one is s * m / 10^e with m a  *)
(* natural number that is 0 (then e = 0) or no multiple of 10: the decimal   *)
(* repr() prints, the shortest that float() reads as the same double.  The   *)
(* digits of a text spell a number below 2^31, the integers of this model.   *)
(* Such a text whose last digit stands at 10^-323 or above is itself that    *)
(* decimal; below, the doubles lie 2^-1074 apart, more than 10^-324, and the *)
(* text is read as the nearest of them.  At the other end a decimal m * 10^k *)
(* of this kind that lies below 2^63 is a double itself, m * 5^k being below *)
(* 2^53; from 2^63 on it need not be, and no integer is taken of it there.   *)
(* Digits may be grouped by single underscores, as int() and float() read    *)
(* them: "1_000" is 1000.                                                    *)

Abs(n) == IF n < 0 THEN -n ELSE n

RECURSIVE Pow10(_)
Pow10(k) == IF k <= 0 THEN 1 ELSE 10 * Pow10(k - 1)

\* k zeros
RECURSIVE Zeros(_)
Zeros(k) ==
    IF k <= 0 THEN ""
    ELSE Bind(Zeros(k \div 2), LAMBDA z : z \o z \o (IF k % 2 = 1 THEN "0" ELSE ""))

\* the number a string of digits (possibly empty) spells
RECURSIVE NatOf(_)
NatOf(s) ==
    IF Len(s) = 0 THEN 0
    ELSE 10 * Bind(SubSeq(s, 1, Len(s) - 1), LAMBDA t : NatOf(t))
            + DigitVal(Char(s, Len(s)))

\* the digits of n >= 0
RECURSIVE StrOf(_)
StrOf(n) == IF n < 10 THEN Digits[n + 1] ELSE StrOf(n \div 10) \o Digits[(n % 10) + 1]

HasSign(s) == Len(s) > 0 /\ Char(s, 1) \in {"+", "-"}

Unsigned(s) == IF HasSign(s) THEN SubSeq(s, 2, Len(s)) ELSE s

SignOf(s) == IF HasSign(s) /\ Char(s, 1) = "-" THEN -1 ELSE 1

\* s is digits, one at least, with single underscores between digits only
Grouped(s) ==
    /\ Len(s) > 0
    /\ \A i \in 1..Len(s) : IsDigit(Char(s, i)) \/ Char(s, i) = "_"
    /\ IsDigit(Char(s, 1))
    /\ IsDigit(Char(s, Len(s)))
    /\ \A i \in 1..(Len(s) - 1) : ~(Char(s, i) = "_" /\ Char(s, i + 1) = "_")

\* s without its underscores
Ungrouped(s) ==
    IF Len(s) = 0 THEN ""
    ELSE Concat([i \in 1..Len(s) |-> IF Char(s, i) = "_" THEN "" ELSE Char(s, i)])

\* int(s): between whitespace an optional sign and decimal digits, which
\* single underscores may group; ok = FALSE is ValueError
int(s) ==
    Bind(strip(s), LAMBDA t :
        Bind(Unsigned(t), LAMBDA u :
            IF Grouped(u)
            THEN [ok |-> TRUE,
                  v |-> SignOf(t) * Bind(Ungrouped(u), LAMBDA ds : NatOf(ds))]
            ELSE [ok |-> FALSE, v |-> 0]))

\* m / 10^e with m >= 0, in the form the floats are kept in
RECURSIVE Normal(_, _)
Normal(m, e) ==
    IF m = 0 THEN [m |-> 0, e |-> 0]
    ELSE IF m % 10 = 0 THEN Normal(m \div 10, e - 1)
    ELSE [m |-> m, e |-> e]

NaN == [k |-> "nan", s |-> 1, m |-> 0, e |-> 0]

Infinity(s) == [k |-> "inf", s |-> s, m |-> 0, e |-> 0]

\* the exponent of 10 in the scientific notation of m / 10^e, m > 0
Exp10(m, e) == Len(StrOf(m)) - 1 - e

\* the first nine digits of m > 0, zeros added when it has fewer
Lead9(m) ==
    IF Len(StrOf(m)) <= 9 THEN m * Pow10(9 - Len(StrOf(m))) ELSE m \div 10

\* m / 10^e lies above the greatest double, 1.7976931348623157e308, and is
\* read as infinity
Overflows(m, e) ==
    \/ Exp10(m, e) > 308
    \/ /\ Exp10(m, e) = 308
       /\ \/ Lead9(m) > 179769313
          \/ Lead9(m) = 179769313 /\ Len(StrOf(m)) = 10 /\ m % 10 >= 5

\* the digit of the numeral p that stands at 10^(k-1), k >= 1
DigitAt(p, k) == IF Len(p) < k THEN 0 ELSE DigitVal(Char(p, Len(p) - k + 1))

\* the numeral p taken four digits at a time from the right: how many such
\* groups it has, and the number the k-th of them spells
Groups(p) == (Len(p) + 3) \div 4

Group(p, k) ==
    IF k < 1 \/ k > Groups(p) THEN 0
    ELSE NatOf(SubSeq(p, IF Len(p) - 4 * k + 1 < 1 THEN 1 ELSE Len(p) - 4 * k + 1,
                      Len(p) - 4 * k + 4))

\* the four digits of n < 10000
Four(n) == Zeros(4 - Len(StrOf(n))) \o StrOf(n)

\* of the product of two numerals written out group by group, the sum of the
\* products that stand at 10000^(k-1), those of the groups of a from the
\* i-th on
RECURSIVE Column(_, _, _, _)
Column(a, b, k, i) ==
    IF i > Groups(a) \/ i > k THEN 0
    ELSE Group(a, i) * Group(b, k - i + 1) + Column(a, b, k, i + 1)

\* the digits of a * b + c * 10000^(k-1) from 10000^(k-1) up
RECURSIVE Carried(_, _, _, _)
Carried(a, b, k, c) ==
    IF k >= Groups(a) + Groups(b) THEN StrOf(c)
    ELSE Bind(Column(a, b, k, 1) + c, LAMBDA t :
             Carried(a, b, k + 1, t \div 10000) \o Four(t % 10000))

\* a * b of two numerals of which a has ten digits at most, as a numeral
\* (zeros may lead it)
Product(a, b) == Bind(a, LAMBDA x : Carried(x, b, 1, 0))

\* the numeral p without its last k digits: p \div 10^k
Shifted(p, k) == IF Len(p) <= k THEN "0" ELSE SubSeq(p, 1, Len(p) - k)

\* p / 10^k without its fraction
Floored(p, k) == Bind(p, LAMBDA x : NatOf(Shifted(x, k)))

\* p / 10^k rounded to the nearest integer
Rounded(p, k) ==
    Bind(p, LAMBDA x : NatOf(Shifted(x, k)) + (IF DigitAt(x, k) >= 5 THEN 1 ELSE 0))

\* how many digits of the three numbers below are kept after the point; the
\* products taken with them lie farther from the next rounding point than
\* the digits left out can move them
Precision == 24

\* the least double above 0, 2^-1074, counted in 10^-324: 4.94..., half of
\* it, and how many of it make 10^-324, each times 10^Precision
LeastDouble == "4940656458412465441765687"
HalfLeast == "2470328229206232720882843"
PerUnit == "202402253307310618352495"

\* which multiple of 2^-1074 the double nearest to m / 10^e is, e >= 324
SubnormalIndex(m, e) ==
    IF e - 324 >= 10 THEN 0
    ELSE Rounded(Product(StrOf(m), PerUnit), Precision + e - 324)

\* the shortest decimal that is read as n * 2^-1074, 0 < n: of the numbers
\* of 10^-324 between (n - 1/2) and (n + 1/2) times 2^-1074 the multiple of
\* 10 when there is one, the nearest to n * 2^-1074 otherwise
Subnormal(n) ==
    LET below == Floored(Product(StrOf(2 * n - 1), HalfLeast), Precision + 1)
        above == Floored(Product(StrOf(2 * n + 1), HalfLeast), Precision + 1)
        mid   == Rounded(Product(StrOf(n), LeastDouble), Precision)
    IN  Bind(<<below, above>>, LAMBDA at :
            IF at[2] > at[1] THEN Normal(at[2], 323)
            ELSE Bind(mid, LAMBDA t : Normal(t, 324)))

\* m / 10^e lies below half of the least double above 0, 5e-324, and is read
\* as 0
Underflows(m, e) == e >= 324 /\ SubnormalIndex(m, e) = 0

\* the double s * m / 10^e is read as
Finite(s, m, e) ==
    Bind(Normal(m, e), LAMBDA n :
        IF n.m = 0 THEN [k |-> "fin", s |-> s, m |-> 0, e |-> 0]
        ELSE IF Overflows(n.m, n.e) THEN Infinity(s)
        ELSE IF n.e < 324 THEN [k |-> "fin", s |-> s, m |-> n.m, e |-> n.e]
        ELSE IF Underflows(n.m, n.e) THEN [k |-> "fin", s |-> s, m |-> 0, e |-> 0]
        ELSE Bind(SubnormalIndex(n.m, n.e), LAMBDA i :
                 [k |-> "fin", s |-> s] @@ Subnormal(i)))

\* the index of the first "." of s, 0 when it has none
RECURSIVE FirstDot(_, _)
FirstDot(s, i) ==
    IF i > Len(s) THEN 0
    ELSE IF Char(s, i) = "." THEN i
    ELSE FirstDot(s, i + 1)

\* the index of the first "e" or "E" of s, 0 when it has none
RECURSIVE FirstExp(_, _)
FirstExp(s, i) ==
    IF i > Len(s) THEN 0
    ELSE IF Char(s, i) \in {"e", "E"} THEN i
    ELSE FirstExp(s, i + 1)

Upper == "ABCDEFGHIJKLMNOPQRSTUVWXYZ"
Lower == "abcdefghijklmnopqrstuvwxyz"

\* str.lower(), of the letters above
lower(s) ==
    IF Len(s) = 0 THEN ""
    ELSE Concat([i \in 1..Len(s) |->
             IF \E j \in 1..26 : Char(Upper, j) = Char(s, i)
             THEN Char(Lower, CHOOSE j \in 1..26 : Char(Upper, j) = Char(s, i))
             ELSE Char(s, i)])

\* float(s): between whitespace an optional sign, then inf, infinity or nan in any case, or
\* digits with at most one point and at least one digit, and an optional
\* exponent, e or E with an optional sign and digits; single underscores may
\* group the digits before the point, those after it and those of the
\* exponent; ok = FALSE is ValueError
float(s) ==
    Bind(strip(s), LAMBDA t :
    Bind(Unsigned(t), LAMBDA u :
    Bind(FirstExp(u, 1), LAMBDA x :
    Bind(IF x = 0 THEN <<u, "0">>
         ELSE <<SubSeq(u, 1, x - 1), SubSeq(u, x + 1, Len(u))>>, LAMBDA me :
    Bind(FirstDot(me[1], 1), LAMBDA d :
    Bind([ip   |-> IF d = 0 THEN me[1] ELSE SubSeq(me[1], 1, d - 1),
          fp   |-> IF d = 0 THEN "" ELSE SubSeq(me[1], d + 1, Len(me[1])),
          expo |-> Unsigned(me[2]),
          sign |-> SignOf(me[2])], LAMBDA p :
        IF lower(u) \in {"inf", "infinity"}
        THEN [ok |-> TRUE, v |-> Infinity(SignOf(t))]
        ELSE IF lower(u) = "nan" THEN [ok |-> TRUE, v |-> NaN]
        ELSE IF /\ p.ip = "" \/ Grouped(p.ip)
                /\ p.fp = "" \/ Grouped(p.fp)
                /\ p.ip \o p.fp # ""
                /\ Grouped(p.expo)
        THEN Bind(<<Ungrouped(p.ip), Ungrouped(p.fp), Ungrouped(p.expo)>>,
                  LAMBDA ds :
                      [ok |-> TRUE,
                       v |-> Finite(SignOf(t), NatOf(ds[1] \o ds[2]),
                                    Len(ds[2]) - p.sign * NatOf(ds[3]))])
        ELSE [ok |-> FALSE, v |-> [k |-> "fin", s |-> 1, m |-> 0, e |-> 0]]))))))

\* an integer converted to float (numpy.c_ of a float and an int column)
to_float(n) == Finite(IF n < 0 THEN -1 ELSE 1, Abs(n), 0)

\* the numeral of m * 10^k, m > 0 and k >= 0
Scaled(m, k) == StrOf(m) \o Zeros(k)

\* a <= b of two numerals that no zero leads
RECURSIVE NumeralLeq(_, _)
NumeralLeq(a, b) ==
    IF Len(a) # Len(b) THEN Len(a) < Len(b)
    ELSE IF Len(a) = 0 THEN TRUE
    ELSE IF Char(a, 1) # Char(b, 1) THEN DigitVal(Char(a, 1)) < DigitVal(Char(b, 1))
    ELSE NumeralLeq(SubSeq(a, 2, Len(a)), SubSeq(b, 2, Len(b)))

\* a finite float below 2^31 in size converted to an integer: C's cast and
\* "%d", both toward zero
trunc(v) ==
    v.s * (IF v.e >= 10 THEN 0
           ELSE IF v.e >= 0 THEN v.m \div Pow10(v.e)
           ELSE v.m * Pow10(-v.e))

\* the finite float v has a place in an array of dtype int: it has a fraction
\* and so lies below 2^31 in size, or is an integer between the ends of the
\* type.  The decimal decides it: the type's ends are doubles or lie next to
\* one (2^63), and the rounding of a decimal to a double keeps the order.
InRange(v) ==
    \/ v.e >= 0
    \/ NumeralLeq(Scaled(v.m, -v.e), Unsigned(INT_MAX))
    \/ v.s < 0 /\ Scaled(v.m, -v.e) = Unsigned(INT_MIN)

\* what the store of the float v into an array of dtype int leaves there: the
\* cast of a finite one that the type has a place for, and of the others what
\* the build makes of it; ok = FALSE is the exception raised
to_int(v, b) ==
    IF v.k = "fin" /\ InRange(v)
    THEN [ok |-> TRUE, error |-> "",
          v |-> IF v.e >= 0 \/ NumeralLeq(Scaled(v.m, -v.e), "2147483647")
                THEN trunc(v)
                ELSE (IF v.s < 0 THEN "-" ELSE "") \o Scaled(v.m, -v.e)]
    ELSE IF b.cast = "raises"
    THEN [ok |-> FALSE, v |-> 0,
          error |-> IF v.k = "nan" THEN "ValueError" ELSE "OverflowError"]
    ELSE IF b.cast = "least" THEN [ok |-> TRUE, error |-> "", v |-> INT_MIN]
    ELSE [ok |-> TRUE, error |-> "",
          v |-> IF v.k = "nan" THEN 0 ELSE IF v.s > 0 THEN INT_MAX ELSE INT_MIN]

\* the exponent of the scientific notation: a sign and two digits at least
exp_text(x) ==
    "e" \o (IF x < 0 THEN "-" ELSE "+") \o (IF Abs(x) < 10 THEN "0" ELSE "")
        \o StrOf(Abs(x))

\* repr() of a Python float: the shortest digits that give the double back,
\* in scientific notation when the point would stand more than 16 digits to
\* the right of the first digit or more than 3 zeros to the left of it
float_repr(v) ==
    LET ds == StrOf(v.m)
        n  == Len(ds)
        pt == n - v.e
        sg == IF v.s < 0 THEN "-" ELSE ""
    IN
    IF v.k = "nan" THEN "nan"
    ELSE IF v.k = "inf" THEN sg \o "inf"
    ELSE IF v.m = 0 THEN sg \o "0.0"
    ELSE IF pt > 16 \/ pt <= -4
    THEN sg \o Char(ds, 1) \o (IF n > 1 THEN "." \o SubSeq(ds, 2, n) ELSE "")
            \o exp_text(pt - 1)
    ELSE IF pt <= 0 THEN sg \o "0." \o Zeros(-pt) \o ds
    ELSE IF pt >= n THEN sg \o ds \o Zeros(pt - n) \o ".0"
    ELSE sg \o SubSeq(ds, 1, pt) \o "." \o SubSeq(ds, pt + 1, n)

\* "%r" of a numpy.float64: the repr of the Python float, which numpy 2 and
\* later wrap in the name of the type
repr(v, b) ==
    IF b.float_repr = "typed" THEN "np.float64(" \o float_repr(v) \o ")"
    ELSE float_repr(v)

\* "%d" of an integer
fmt_d(n) == (IF n < 0 THEN "-" ELSE "") \o StrOf(Abs(n))

-----------------------------------------------------------------------------
(* read_buffer *)

\* a faulty table: a triangle record of four nodes
meshio_from_medit_wide_triangle ==
    [Edges          |-> <<"line", 2>>,
     Triangles      |-> <<"triangle", 4>>,
     Quadrilaterals |-> <<"quad", 4>>,
     Tetrahedra     |-> <<"tetra", 4>>,
     Hexahedra      |-> <<"hexahedra", 8>>]

\* keyword -> (family, nodes per record)
meshio_from_medit ==
    [Edges          |-> <<"line", 2>>,
     Triangles      |-> <<"triangle", 3>>,
     Quadrilaterals |-> <<"quad", 4>>,
     Tetrahedra     |-> <<"tetra", 4>>,
     Hexahedra      |-> <<"hexahedra", 8>>]

\* keyword -> number of values per entry
ignored_fields ==
    [Corners                       |-> 1,
     RequiredVertices              |-> 1,
     Ridges                        |-> 1,
     RequiredEdges                 |-> 1,
     Normals                       |-> 3,
     Tangents                      |-> 3,
     NormalAtVertices              |-> 2,
     NormalAtTriangleVertices      |-> 3,
     NormalAtQuadrilateralVertices |-> 3,
     TangentAtEdges                |-> 3]

\* an empty dict
EmptyDict == <<>>

\* d[k] = v
DictSet(d, k, v) == (k :> v) @@ d

\* the snapshot and the warnings as a turn of the loop finds them
NothingBefore ==
    [dim |-> 0, points |-> [bound |-> FALSE, rows |-> <<>>],
     point_data |-> EmptyDict, cells |-> EmptyDict, cell_data |-> EmptyDict,
     warnings |-> <<>>]

\* what is known of a run beside the program's own state: every token the
\* pulls returned (got), how many of them up to and including the last keyword
\* (mark), that keyword (kw), the snapshot and the warnings as they were when
\* that keyword was pulled (before), the warnings printed, the pull at which
\* the line source ran out (stop_at), whether End was met, and, for a bare
\* token stream, how many tokens the calls asked for in all and the last
\* call's n
NoHistory ==
    [got |-> <<>>, mark |-> 0, kw |-> "", before |-> NothingBefore,
     warnings |-> <<>>, stop_at |-> "", end_seen |-> FALSE, asked |-> 0,
     last_n |-> 0]

\* where read_buffer stands: wait names the pull in whose call of
\* next(self._file) (line 44 or 47) it waits for the source's next line, ""
\* when it does not wait; keyword, count (num_verts, num_cells or n_values)
\* and k are the locals of the turn of the loop, and items is the local of
\* the call of next_items that waits.  Between two turns the locals are dead
\* and kept empty.
NoPosition == [wait |-> "", keyword |-> "", count |-> 0, k |-> 0, items |-> <<>>]

\* the locals of read_buffer as lines 60-65 leave them, in the build b
ReadStart(b) ==
    [r |-> ItemReader, dim |-> 0,
     points |-> [bound |-> FALSE, rows |-> <<>>],
     point_data |-> EmptyDict, cells |-> EmptyDict, cell_data |-> EmptyDict,
     status |-> "running", error |-> "", hist |-> NoHistory,
     pc |-> NoPosition, build |-> b]

Fail(S, err) == [S EXCEPT !.status = "failed", !.error = err]

\* read_buffer does not go on from S within this step: it has ended, or it
\* waits for a line
Stopped(S) == S.status # "running" \/ S.pc.wait # ""

\* a pull made by read_buffer: next_items(n), begun or, after a wait, gone on
\* with, its tokens noted when it returns
Pull(f, e, S, n, site) ==
    Bind(next_items_loop(f, e, S.r, S.pc.items, n), LAMBDA res :
        [st |-> res.st, items |-> res.items,
         S |-> [S EXCEPT !.r = res.r,
                         !.pc.wait = IF res.st = "starved" THEN site ELSE "",
                         !.pc.items = IF res.st = "starved" THEN res.items ELSE <<>>,
                         !.hist.got = IF res.st = "ok" THEN @ \o res.items ELSE @,
                         !.hist.stop_at = IF res.st = "stop" THEN site ELSE @]])

\* a faulty Abort: the end of the input inside a block ends the loop quietly
Abort_quietly(p) ==
    IF p.st = "stop" THEN [p.S EXCEPT !.status = "returned"] ELSE p.S

\* a pull that did not return: StopIteration leaves read_buffer as it is
\* raised; otherwise read_buffer waits in the pull
Abort(p) ==
    IF p.st = "stop" THEN Fail(p.S, "StopIteration") ELSE p.S

\* a faulty to_zero_base: the indices are stored as they stand in the file
to_zero_base_kept(rows) == rows

\* cells[meshio_name] -= 1
to_zero_base(rows) == [k \in 1..Len(rows) |-> [i \in 1..Len(rows[k]) |-> rows[k][i] - 1]]

\* lines 117-119: one record of a Vertices block, from its dim + 1 tokens
store_point(S, items) ==
    Bind([i \in 1..(S.dim + 1) |-> float(items[i])], LAMBDA data :
        IF \E i \in 1..(S.dim + 1) : ~data[i].ok THEN Fail(S, "MalformedNumber")
        ELSE Bind([S EXCEPT !.points.rows = Append(@, [i \in 1..S.dim |-> data[i].v])],
                  LAMBDA T :
                 Bind(to_int(data[S.dim + 1].v, S.build), LAMBDA label :
                     IF ~label.ok THEN Fail(T, label.error)
                     ELSE [T EXCEPT !.point_data = DictSet(@, 0, Append(@[0], label.v))])))

\* lines 115-119: the records of a Vertices block, from record k on.  The
\* arrays numpy.empty allocated are filled in order; they are kept here as
\* the rows filled so far.
RECURSIVE read_points(_, _, _, _, _)
read_points(f, e, S, k, num_verts) ==
    IF k >= num_verts THEN S
    ELSE Bind(Pull(f, e, [S EXCEPT !.pc.k = k], S.dim + 1, "vertex"), LAMBDA p :
             IF p.st # "ok" THEN Abort(p)
             ELSE Bind(store_point(p.S, p.items), LAMBDA T :
                      IF T.status # "running" THEN T
                      ELSE read_points(f, e, T, k + 1, num_verts)))

\* lines 127-130: one record of an element block, from its num + 1 tokens
store_cell(S, meshio_name, num, items) ==
    Bind([i \in 1..(num + 1) |-> int(items[i])], LAMBDA data :
        IF \E i \in 1..(num + 1) : ~data[i].ok THEN Fail(S, "MalformedNumber")
        ELSE [S EXCEPT
                !.cells = DictSet(@, meshio_name,
                              Append(@[meshio_name], [i \in 1..num |-> data[i].v])),
                !.cell_data = DictSet(@, meshio_name,
                              (0 :> Append(@[meshio_name][0], data[num + 1].v)))])

\* a faulty read_cells: one record is read whatever the count
read_cells_do_while(f, e, S, meshio_name, num, k, num_cells) ==
    Bind(Pull(f, e, [S EXCEPT !.pc.k = k], num + 1, "element"), LAMBDA p :
        IF p.st # "ok" THEN Abort(p)
        ELSE store_cell(p.S, meshio_name, num, p.items))

\* lines 126-130: the records of an element block, from record k on
RECURSIVE read_cells(_, _, _, _, _, _, _)
read_cells(f, e, S, meshio_name, num, k, num_cells) ==
    IF k >= num_cells THEN S
    ELSE Bind(Pull(f, e, [S EXCEPT !.pc.k = k], num + 1, "element"), LAMBDA p :
             IF p.st # "ok" THEN Abort(p)
             ELSE Bind(store_cell(p.S, meshio_name, num, p.items), LAMBDA T :
                      IF T.status # "running" THEN T
                      ELSE read_cells(f, e, T, meshio_name, num, k + 1, num_cells)))

\* lines 105-106
on_version(f, e, S) ==
    Bind(Pull(f, e, S, 1, "version"), LAMBDA p :
        IF p.st # "ok" THEN Abort(p)
        ELSE IF p.items[1] # "1" THEN Fail(p.S, "UnsupportedVersion")
        ELSE p.S)

\* lines 107-108
on_dimension(f, e, S) ==
    Bind(Pull(f, e, S, 1, "dimension"), LAMBDA p :
        IF p.st # "ok" THEN Abort(p)
        ELSE Bind(int(p.items[1]), LAMBDA d :
                 IF ~d.ok THEN Fail(p.S, "MalformedNumber")
                 ELSE [p.S EXCEPT !.dim = d.v]))

\* lines 112-119: the count of a Vertices block, the arrays, the records
vertices_count(f, e, S) ==
    Bind(Pull(f, e, S, 1, "count"), LAMBDA p :
        IF p.st # "ok" THEN Abort(p)
        ELSE Bind(int(p.items[1]), LAMBDA num_verts :
                 IF ~num_verts.ok THEN Fail(p.S, "MalformedNumber")
                 ELSE IF num_verts.v < 0 THEN Fail(p.S, "NegativeDimensions")
                 ELSE read_points(f, e,
                          [p.S EXCEPT !.points = [bound |-> TRUE, rows |-> <<>>],
                                      !.point_data = DictSet(@, 0, <<>>),
                                      !.pc.count = num_verts.v],
                          0, num_verts.v)))

\* lines 109-119
on_vertices(f, e, S) ==
    IF ~(S.dim > 0) THEN Fail(S, "DimensionNotSet") ELSE vertices_count(f, e, S)

\* line 133, reached when the records of the block are read
finish_cells(T, meshio_name) ==
    IF Stopped(T) THEN T
    ELSE [T EXCEPT !.cells = DictSet(@, meshio_name, to_zero_base(@[meshio_name]))]

\* lines 124-133: the arrays of the family are made anew, filled, and the
\* indices moved to base 0
fill_cells(f, e, S, meshio_name, num, num_cells) ==
    finish_cells(
        read_cells(f, e,
            [S EXCEPT !.cells = DictSet(@, meshio_name, <<>>),
                      !.cell_data = DictSet(@, meshio_name, (0 :> <<>>)),
                      !.pc.count = num_cells],
            meshio_name, num, 0, num_cells),
        meshio_name)

\* lines 120-133
on_element(f, e, S, keyword) ==
    Bind(Pull(f, e, S, 1, "count"), LAMBDA p :
        IF p.st # "ok" THEN Abort(p)
        ELSE Bind(int(p.items[1]), LAMBDA num_cells :
                 IF ~num_cells.ok THEN Fail(p.S, "MalformedNumber")
                 ELSE IF num_cells.v < 0 THEN Fail(p.S, "NegativeDimensions")
                 ELSE fill_cells(f, e, p.S, meshio_from_medit[keyword][1],
                                 meshio_from_medit[keyword][2], num_cells.v)))

\* a faulty n_values: the multiplier is left out
n_values_unscaled(K, keyword) == K

\* n_values = int(reader.next_item()) * ignored_fields[keyword]
n_values(K, keyword) == K * ignored_fields[keyword]

\* line 138: reader.next_items(n_values)
skip_values(f, e, S, n) ==
    Bind(Pull(f, e, S, n, "skip"), LAMBDA q :
        IF q.st # "ok" THEN Abort(q) ELSE q.S)

\* lines 137-138: the count of an auxiliary block and the values skipped
ignored_count(f, e, S, keyword) ==
    Bind(Pull(f, e, S, 1, "count"), LAMBDA p :
        IF p.st # "ok" THEN Abort(p)
        ELSE Bind(int(p.items[1]), LAMBDA K :
                 IF ~K.ok THEN Fail(p.S, "MalformedNumber")
                 ELSE skip_values(f, e,
                          [p.S EXCEPT !.pc.count = n_values(K.v, keyword)],
                          n_values(K.v, keyword))))

\* lines 134-138; the warning is printed before the count is pulled
on_ignored(f, e, S, keyword) ==
    ignored_count(f, e, [S EXCEPT !.hist.warnings = Append(@, keyword)], keyword)

\* a faulty on_other: a keyword of no table is passed over
on_other_lenient(S, keyword) == [S EXCEPT !.hist.end_seen = @ \/ keyword = "End"]

\* lines 139-140
on_other(S, keyword) ==
    IF keyword # "End" THEN Fail(S, "UnknownKeyword")
    ELSE [S EXCEPT !.hist.end_seen = TRUE]

\* lines 95-140: what the loop does with the keyword it pulled
dispatch(f, e, S, keyword) ==
    IF ~isalpha(keyword) THEN Fail(S, "MalformedKeyword")
    ELSE IF keyword = "MeshVersionFormatted" THEN on_version(f, e, S)
    ELSE IF keyword = "Dimension" THEN on_dimension(f, e, S)
    ELSE IF keyword = "Vertices" THEN on_vertices(f, e, S)
    ELSE IF keyword \in DOMAIN meshio_from_medit THEN on_element(f, e, S, keyword)
    ELSE IF keyword \in DOMAIN ignored_fields THEN on_ignored(f, e, S, keyword)
    ELSE on_other(S, keyword)

\* a faulty on_return: the loop goes on at the end of the input
on_return_loops(S) == S

\* a faulty on_return: points is bound to an empty array from the start
on_return_unbound(S) == [S EXCEPT !.status = "returned"]

\* line 142: return points, cells, point_data, cell_data
on_return(S) ==
    IF S.points.bound THEN [S EXCEPT !.status = "returned"]
    ELSE Fail(S, "UnboundLocalError")

\* line 89: the turn is over and the loop is at its head again
next_turn(T) == IF Stopped(T) THEN T ELSE [T EXCEPT !.pc = NoPosition]

\* lines 89-142: one turn of the while loop from its head, or from a wait in
\* the keyword pull, as far as it gets: to the head of the loop again, to a
\* wait for a line, or to the break and the return
iteration(f, e, S) ==
    Bind(Pull(f, e, S, 1, "keyword"), LAMBDA p :
        IF p.st = "starved" THEN p.S
        ELSE IF p.st = "stop" THEN on_return(p.S)
        ELSE next_turn(dispatch(f, e,
                 [p.S EXCEPT !.hist.kw = p.items[1],
                             !.hist.mark = Len(p.S.hist.got),
                             !.hist.before =
                                 [dim |-> S.dim, points |-> S.points,
                                  point_data |-> S.point_data, cells |-> S.cells,
                                  cell_data |-> S.cell_data,
                                  warnings |-> S.hist.warnings],
                             !.pc.keyword = p.items[1]],
                 p.items[1])))

\* the turn gone on with after a wait in the pull S.pc.wait, the line source
\* having yielded a line or ended
resume(f, e, S) ==
    IF S.pc.wait \in {"", "keyword"} THEN iteration(f, e, S)
    ELSE next_turn(
        CASE S.pc.wait = "version" -> on_version(f, e, S)
          [] S.pc.wait = "dimension" -> on_dimension(f, e, S)
          [] S.pc.wait = "count" ->
                IF S.pc.keyword = "Vertices" THEN vertices_count(f, e, S)
                ELSE IF S.pc.keyword \in DOMAIN meshio_from_medit
                THEN on_element(f, e, S, S.pc.keyword)
                ELSE ignored_count(f, e, S, S.pc.keyword)
          [] S.pc.wait = "vertex" -> read_points(f, e, S, S.pc.k, S.pc.count)
          [] S.pc.wait = "element" ->
                finish_cells(
                    read_cells(f, e, S, meshio_from_medit[S.pc.keyword][1],
                               meshio_from_medit[S.pc.keyword][2], S.pc.k, S.pc.count),
                    meshio_from_medit[S.pc.keyword][1])
          [] S.pc.wait = "skip" -> skip_values(f, e, S, S.pc.count))

\* read_buffer run on the lines f as far as it gets: until it returns or
\* fails, or waits for a line f does not have
RECURSIVE read_from(_, _, _)
read_from(f, e, S) ==
    IF S.status # "running" THEN S
    ELSE Bind(resume(f, e, S), LAMBDA T :
             IF T.pc.wait # "" THEN T ELSE read_from(f, e, T))

\* read_buffer(file) on a file that is there whole, in the build b
read_buffer(f, b) == read_from(f, TRUE, ReadStart(b))

-----------------------------------------------------------------------------
(* write *)

\* family -> (keyword, nodes per record)
medit_from_meshio ==
    [line      |-> <<"Edges", 2>>,
     triangle  |-> <<"Triangles", 3>>,
     quad      |-> <<"Quadrilaterals", 4>>,
     tetra     |-> <<"Tetrahedra", 4>>,
     hexahedra |-> <<"Hexahedra", 8>>]

\* numpy.ones(n, dtype=int)
ones(n) == [i \in 1..n |-> 1]

\* list(d.values())[0] of a dict with one key
SoleValue(d) == d[CHOOSE k \in DOMAIN d : TRUE]

\* " ".join(ws)
RECURSIVE Join(_)
Join(ws) ==
    IF Len(ws) = 0 THEN ""
    ELSE IF Len(ws) = 1 THEN ws[1]
    ELSE ws[1] \o " " \o Join(Tail(ws))

\* lines 160-166: the labels written with the points
point_labels(m, n) ==
    IF DOMAIN m.point_data # {}
    THEN IF 0 \in DOMAIN m.point_data
         THEN [ok |-> TRUE, error |-> "", labels |-> m.point_data[0]]
         ELSE IF Cardinality(DOMAIN m.point_data) # 1
         THEN [ok |-> FALSE, error |-> "MultiLabelUnsupported", labels |-> <<>>]
         ELSE [ok |-> TRUE, error |-> "", labels |-> SoleValue(m.point_data)]
    ELSE [ok |-> TRUE, error |-> "", labels |-> ones(n)]

\* lines 167-169: one row of numpy.c_[mesh.points, labels] under the format
\* "%r ... %r %d" in the build b; the label is a float of that array when it
\* is formatted
point_row(row, label, b) ==
    Join([i \in 1..Len(row) |-> repr(row[i], b)]
             \o <<fmt_d(trunc(to_float(label)))>>) \o "\n"

\* lines 194-200: the labels written with the records of family key
cell_labels(m, key, data) ==
    IF DOMAIN m.cell_data # {}
    THEN IF key \notin DOMAIN m.cell_data
         THEN [ok |-> FALSE, error |-> "KeyError", labels |-> <<>>]
         ELSE IF 0 \in DOMAIN m.cell_data[key]
         THEN [ok |-> TRUE, error |-> "", labels |-> m.cell_data[key][0]]
         ELSE IF Cardinality(DOMAIN m.cell_data[key]) # 1
         THEN [ok |-> FALSE, error |-> "MultiLabelUnsupported", labels |-> <<>>]
         ELSE [ok |-> TRUE, error |-> "", labels |-> SoleValue(m.cell_data[key])]
    ELSE [ok |-> TRUE, error |-> "", labels |-> ones(Len(data))]

\* data + 1
to_one_base(rec) == [i \in 1..Len(rec) |-> rec[i] + 1]

\* lines 203-205: one row of numpy.c_[data + 1, labels] under "%d ... %d"
cell_row(rec, label) ==
    Join([i \in 1..(Len(rec) + 1) |-> fmt_d((to_one_base(rec) \o <<label>>)[i])]) \o "\n"

\* a faulty write_head: the producer comment is written first
write_head_comment_first(m) ==
    <<"# Created by meshio\n", "MeshVersionFormatted 1\n",
      "\nDimension " \o fmt_d(m.d) \o "\n",
      "\nVertices\n", fmt_d(Len(m.points)) \o "\n">>

\* lines 147-158: what is written before the point labels are chosen
write_head(m) ==
    <<"MeshVersionFormatted 1\n", "# Created by meshio\n",
      "\nDimension " \o fmt_d(m.d) \o "\n",
      "\nVertices\n", fmt_d(Len(m.points)) \o "\n">>


\* lines 182-187: a family without a keyword: logging.warning(msg); continue
skip_family(W, key) == [W EXCEPT !.warnings = Append(@, key)]

\* lines 179-205: the families from the i-th on, W being the write so far
RECURSIVE write_cells(_, _, _)
write_cells(m, i, W) ==
    IF i > Len(m.cells) THEN W
    ELSE IF m.cells[i].key \notin DOMAIN medit_from_meshio
    THEN write_cells(m, i + 1, skip_family(W, m.cells[i].key))
    ELSE Bind(cell_labels(m, m.cells[i].key, m.cells[i].data), LAMBDA lb :
             Bind([W EXCEPT !.chunks = @ \o <<"\n",
                       medit_from_meshio[m.cells[i].key][1] \o "\n",
                       fmt_d(Len(m.cells[i].data)) \o "\n">>], LAMBDA V :
                 IF ~lb.ok THEN [V EXCEPT !.status = "failed", !.error = lb.error]
                 ELSE write_cells(m, i + 1,
                          [V EXCEPT !.chunks = @ \o
                              [k \in 1..Len(m.cells[i].data) |->
                                  cell_row(m.cells[i].data[k], lb.labels[k])]])))

\* write(filename, mesh) in the build b: the pieces written to the file, in
\* order, and how the call ended
write(m, b) ==
    Bind(point_labels(m, Len(m.points)), LAMBDA lb :
        IF ~lb.ok
        THEN [status |-> "failed", error |-> lb.error, chunks |-> write_head(m),
              warnings |-> <<>>]
        ELSE Bind(write_cells(m, 1,
                      [status |-> "done", error |-> "",
                       chunks |-> write_head(m) \o
                           [k \in 1..Len(m.points) |-> point_row(m.points[k], lb.labels[k], b)],
                       warnings |-> <<>>]), LAMBDA W :
                 IF W.status # "done" THEN W
                 ELSE [W EXCEPT !.chunks = Append(@, "\nEnd\n")]))

\* open(filename) reads with universal newlines: "\r\n" and "\r" end a line
\* as "\n" does, and are handed on as "\n"
RECURSIVE universal_newlines(_)
universal_newlines(text) ==
    Bind({i \in 1..Len(text) : Char(text, i) = "\r"}, LAMBDA CR :
        IF CR = {} THEN text
        ELSE Bind(CHOOSE i \in CR : \A j \in CR : i <= j, LAMBDA i :
                 SubSeq(text, 1, i - 1) \o "\n" \o
                 Bind(SubSeq(text,
                             IF i < Len(text) /\ Char(text, i + 1) = "\n"
                             THEN i + 2 ELSE i + 1,
                             Len(text)),
                      LAMBDA t : universal_newlines(t))))

\* where the lines end that open(filename) yields of a text, counted in the
\* characters handed on: at each line end, and at the end of the text
LineEnds(text) ==
    Bind(universal_newlines(text), LAMBDA t :
        {i \in 1..Len(t) : Char(t, i) = "\n"} \cup
        (IF Len(t) > 0 THEN {Len(t)} ELSE {}))

\* the lines open(filename) yields when iterated: each up to and with its "\n"
readlines(text) ==
    Bind(universal_newlines(text), LAMBDA t :
        Bind(LineEnds(text), LAMBDA E :
            [k \in 1..Cardinality(E) |->
                SubSeq(t,
                       IF k = 1 THEN 1
                       ELSE 1 + CHOOSE i \in E : Cardinality({j \in E : j <= i}) = k - 1,
                       CHOOSE i \in E : Cardinality({j \in E : j <= i}) = k)]))

-----------------------------------------------------------------------------
(* The state machine *)

\* the reader's and read_buffer's state, as the operators above take it
Current ==
    [r |-> [pos |-> pos, line |-> line, line_ptr |-> line_ptr],
     dim |-> dim, points |-> points, point_data |-> point_data,
     cells |-> cells, cell_data |-> cell_data,
     status |-> status, error |-> error, hist |-> hist,
     pc |-> pc, build |-> build]

StateIs(S) ==
    /\ pos = S.r.pos
    /\ line = S.r.line
    /\ line_ptr = S.r.line_ptr
    /\ dim = S.dim
    /\ points = S.points
    /\ point_data = S.point_data
    /\ cells = S.cells
    /\ cell_data = S.cell_data
    /\ status = S.status
    /\ error = S.error
    /\ hist = S.hist
    /\ pc = S.pc
    /\ build = S.build

Install(S) ==
    /\ pos' = S.r.pos
    /\ line' = S.r.line
    /\ line_ptr' = S.r.line_ptr
    /\ dim' = S.dim
    /\ points' = S.points
    /\ point_data' = S.point_data
    /\ cells' = S.cells
    /\ cell_data' = S.cell_data
    /\ status' = S.status
    /\ error' = S.error
    /\ hist' = S.hist
    /\ pc' = S.pc
    /\ build' = S.build

NoMesh == [d |-> 0, points |-> <<>>, point_data |-> EmptyDict,
           cells |-> <<>>, cell_data |-> EmptyDict]

NotWritten == [status |-> "idle", error |-> "", chunks |-> <<>>, warnings |-> <<>>]

\* all sequences over S of length at most n
SeqsUpTo(S, n) == UNION {[1..k -> S] : k \in 0..n}

(* Bounds of the token stream's inputs *)
MaxTokLines == 3
MaxPull == 3

TokLines ==
    {"a\n", "a b\n", " b  c \n", "a\tb c\n", "b#\n",
     "\n", "  \t\n", "# a\n", "\t#b c\n"}

InitTok ==
    /\ file \in SeqsUpTo(TokLines, MaxTokLines)
    /\ eof = TRUE
    /\ build \in ReadBuilds \cap WriteBuilds
    /\ StateIs(ReadStart(build))
    /\ mesh = NoMesh
    /\ wout = NotWritten

\* a caller of the token stream calls next_items(n)
NextItems(n) ==
    /\ status = "running"
    /\ \E res \in {next_items(file, eof, Current.r, n)} :
       IF res.st = "ok"
       THEN Install([Current EXCEPT !.r = res.r,
                                    !.hist.mark = Len(hist.got),
                                    !.hist.got = @ \o res.items,
                                    !.hist.asked = @ + n,
                                    !.hist.last_n = n])
       ELSE Install(Fail([Current EXCEPT !.r = res.r, !.hist.stop_at = "call"],
                         "StopIteration"))
    /\ UNCHANGED <<file, eof, mesh, wout>>

NextTok == \E n \in 0..MaxPull : NextItems(n)

SpecTok == InitTok /\ [][NextTok]_vars

(* Bounds of read_buffer's inputs *)
MaxLines == 3
MaxSkips == 1

InputLines ==
    {"MeshVersionFormatted\n", "Dimension 1\n", "Dimension\n",
     "Vertices 1 0.5 7\n", " Vertices\n", "Edges 1 1 2 5\n", "Edges\n",
     "Normals 1\n", "Corners\n", "End\n", "Bogus\n",
     "1\n", "0\n", "-1\n", "1 2 5\n", "Vertices 0_1 3e-3_24 nan\n"}

SkipLines == {"\n", "  # End\n"}

\* a line next_items passes over: blank, or its first non-space character is #
IsSkipLine(l) ==
    \/ \A i \in 1..Len(l) : Char(l, i) \in Whitespace
    \/ \E i \in 1..Len(l) : /\ Char(l, i) = "#"
                            /\ \A j \in 1..(i - 1) : Char(l, j) \in Whitespace

NumSkips(f) == Cardinality({i \in 1..Len(f) : IsSkipLine(f[i])})

InitRead ==
    /\ file = <<>>
    /\ eof = FALSE
    /\ build \in ReadBuilds
    /\ StateIs(ReadStart(build))
    /\ mesh = NoMesh
    /\ wout = NotWritten

\* read_buffer waits in next(self._file) for a line the source has not
\* yielded yet
Waiting == status = "running" /\ pc.wait # "" /\ pos = Len(file) /\ ~eof

\* the line source, asked for its next line, yields it
Yield ==
    /\ Waiting
    /\ \E l \in InputLines \cup SkipLines :
          /\ IF IsSkipLine(l) THEN NumSkips(file) < MaxSkips
             ELSE Len(file) - NumSkips(file) < MaxLines
          /\ file' = Append(file, l)
    /\ UNCHANGED <<eof, pos, line, line_ptr, dim, points, point_data, cells,
                   cell_data, status, error, hist, pc, build, mesh, wout>>

\* the line source, asked for its next line, has none: StopIteration
Exhaust ==
    /\ Waiting
    /\ eof' = TRUE
    /\ UNCHANGED <<file, pos, line, line_ptr, dim, points, point_data, cells,
                   cell_data, status, error, hist, pc, build, mesh, wout>>

\* read_buffer runs: from the head of its loop, or from the call of
\* next(self._file) that has come back, to the head of the loop again, to the
\* next call of next(self._file) that has to wait, or to its end
Iterate ==
    /\ status = "running"
    /\ ~Waiting
    /\ \E T \in {resume(file, eof, Current)} : Install(T)
    /\ UNCHANGED <<file, eof, mesh, wout>>

NextRead ==
    \/ Yield
    \/ Exhaust
    \/ Iterate

SpecRead == InitRead /\ [][NextRead]_vars

\* read_buffer and the line source each take their next step when they can
SpecReadFair == SpecRead /\ WF_vars(NextRead)

(* Bounds of write's inputs: the snapshots written and read back *)
MaxDim == 2
MaxPoints == 2
MaxCells == 1

\* 0.0, -1.5 and 1e-05
Coordinates ==
    {Finite(1, 0, 0), Finite(-1, 15, 1), Finite(1, 1, 5)}

\* the lists of families a snapshot holds, in iteration order; wedge has no
\* keyword
FamilyLists ==
    {<<>>, <<"line">>, <<"triangle">>, <<"wedge">>, <<"hexahedra">>,
     <<"line", "triangle">>, <<"triangle", "line">>, <<"quad", "tetra">>,
     <<"wedge", "line">>, <<"line", "wedge">>}

NodesOf(family) ==
    IF family = "wedge" THEN 6 ELSE medit_from_meshio[family][2]

\* the c records of a family: node indices 0 and 1 in turn
RecordsOf(family, c) ==
    [k \in 1..c |-> [i \in 1..NodesOf(family) |-> (i + k) % 2]]

\* label sequences of length n: one told apart by position, one constant
LabelsA(n) == [i \in 1..n |-> 6 + i]
LabelsB(n) == [i \in 1..n |-> 9]

\* the label maps a point set or a family of n entries may carry: none, one
\* sequence under key 0 or another key, two sequences with and without key 0
LabelMaps(n) ==
    {EmptyDict, (0 :> LabelsA(n)), (1 :> LabelsA(n)),
     (0 :> LabelsA(n)) @@ (1 :> LabelsB(n)),
     (1 :> LabelsA(n)) @@ (2 :> LabelsB(n))}

PointSets(d) == UNION {[1..n -> [1..d -> Coordinates]] : n \in 0..MaxPoints}

\* snapshots that vary the points and their labels
PointMeshes ==
    UNION {UNION {{[d |-> d, points |-> ps, point_data |-> pd, cells |-> <<>>,
                    cell_data |-> EmptyDict] : pd \in LabelMaps(Len(ps))} :
                  ps \in PointSets(d)} :
           d \in 1..MaxDim}

\* what a snapshot's cell_data may hold for a family of n records: no entry,
\* or one of the label maps
LabelOptions(n) ==
    {[present |-> FALSE, map |-> EmptyDict]} \cup
    {[present |-> TRUE, map |-> lm] : lm \in LabelMaps(n)}

\* the cells and cell_data a snapshot may hold for a list of families
RECURSIVE CellChoices(_)
CellChoices(fl) ==
    IF Len(fl) = 0 THEN {[cells |-> <<>>, cell_data |-> EmptyDict]}
    ELSE UNION {UNION {{[cells |-> <<[key |-> Head(fl),
                                      data |-> RecordsOf(Head(fl), c)]>> \o rest.cells,
                         cell_data |-> IF o.present
                                       THEN DictSet(rest.cell_data, Head(fl), o.map)
                                       ELSE rest.cell_data] :
                        o \in LabelOptions(c)} :
                       c \in 0..MaxCells} :
                rest \in CellChoices(Tail(fl))}

\* snapshots that vary the families, their records and their labels
CellMeshes ==
    UNION {{[d |-> 2, points |-> <<<<Finite(1, 0, 0), Finite(-1, 15, 1)>>>>,
             point_data |-> EmptyDict, cells |-> cc.cells,
             cell_data |-> cc.cell_data] : cc \in CellChoices(fl)} :
           fl \in FamilyLists}

InitRT ==
    /\ mesh \in PointMeshes \cup CellMeshes
    /\ wout = NotWritten
    /\ file = <<>>
    /\ eof = FALSE
    /\ build \in WriteBuilds
    /\ StateIs(ReadStart(build))

\* write(filename, mesh); the file it wrote is then the reader's line source
Write ==
    /\ wout.status = "idle"
    /\ \E W \in {write(mesh, build)} :
          /\ wout' = W
          /\ IF W.status = "done"
             THEN file' = readlines(Concat(W.chunks)) /\ eof' = TRUE
             ELSE UNCHANGED <<file, eof>>
    /\ UNCHANGED <<pos, line, line_ptr, dim, points, point_data, cells,
                   cell_data, status, error, hist, pc, build, mesh>>

NextRT ==
    \/ Write
    \/ Iterate

SpecRT == InitRT /\ [][NextRT]_vars

(* Bounds of the worked example: the file of the format's description, read
   whole, with blank and comment lines put in *)
MaxInserted == 1

ExampleLines ==
    <<"Dimension 2\n", "Vertices\n", "2\n", "0.0 0.0 1\n", "1.0 0.0 2\n",
      "Triangles\n", "1\n", "1 2 2 5\n", "End\n">>

\* f with the line l put in after its first i lines
InsertAt(f, i, l) == SubSeq(f, 1, i) \o <<l>> \o SubSeq(f, i + 1, Len(f))

\* the files got from those of F by putting in up to k blank or comment lines
RECURSIVE WithInserted(_, _)
WithInserted(F, k) ==
    IF k = 0 THEN F
    ELSE F \cup WithInserted(UNION {{InsertAt(f, i, l) :
                                        i \in 0..Len(f), l \in SkipLines} :
                                    f \in F}, k - 1)

\* the text of a file whose lines are f, each ended by nl in place of "\n"
TextOf(f, nl) ==
    Concat([i \in 1..Len(f) |-> SubSeq(f[i], 1, Len(f[i]) - 1) \o nl])

\* the example with and without its version line, as written and indented,
\* and as open(filename) yields it of a file with "\r\n" or "\r" line ends
ExampleFiles ==
    WithInserted({ExampleLines,
                  <<"MeshVersionFormatted 1\n">> \o ExampleLines,
                  [i \in 1..Len(ExampleLines) |-> "  " \o ExampleLines[i]],
                  readlines(TextOf(ExampleLines, "\r\n")),
                  readlines(TextOf(ExampleLines, " \r"))},
                 MaxInserted)

InitExample ==
    /\ file \in ExampleFiles
    /\ eof = TRUE
    /\ build \in Builds
    /\ StateIs(ReadStart(build))
    /\ mesh = NoMesh
    /\ wout = NotWritten

NextExample == Iterate

SpecExample == InitExample /\ [][NextExample]_vars

-----------------------------------------------------------------------------
(* What the claims speak of, said without the reader's own operators *)

\* the k-th smallest member of a set of numbers
Kth(E, k) == CHOOSE i \in E : Cardinality({j \in E : j <= i}) = k

\* where the whitespace-separated tokens of a line start and end
WordStarts(l) ==
    {i \in 1..Len(l) : /\ Char(l, i) \notin Whitespace
                       /\ (i = 1 \/ Char(l, i - 1) \in Whitespace)}

WordEnds(l) ==
    {i \in 1..Len(l) : /\ Char(l, i) \notin Whitespace
                       /\ (i = Len(l) \/ Char(l, i + 1) \in Whitespace)}

\* the whitespace-separated tokens of a line
Words(l) ==
    [k \in 1..Cardinality(WordStarts(l)) |->
        SubSeq(l, Kth(WordStarts(l), k), Kth(WordEnds(l), k))]

\* the file's token sequence: the tokens of its lines that are neither blank
\* nor comments, in file order
RECURSIVE FileTokens(_)
FileTokens(f) ==
    IF Len(f) = 0 THEN <<>>
    ELSE (IF IsSkipLine(Head(f)) THEN <<>> ELSE Words(Head(f))) \o FileTokens(Tail(f))

\* no turn of the loop is under way: read_buffer is at the head of the loop,
\* in the keyword pull, or past the loop
TurnOver == pc.keyword = ""

\* the snapshot read_buffer holds, and the warnings printed
Snapshot ==
    [dim |-> dim, points |-> points, point_data |-> point_data, cells |-> cells,
     cell_data |-> cell_data, warnings |-> hist.warnings]

\* the tokens the last pull, or the last turn of the loop after its keyword,
\* returned
LastPulled == SubSeq(hist.got, hist.mark + 1, Len(hist.got))

ElementKeywords == {"Edges", "Triangles", "Quadrilaterals", "Tetrahedra", "Hexahedra"}

AuxiliaryKeywords ==
    {"Corners", "RequiredVertices", "Ridges", "RequiredEdges", "Normals",
     "Tangents", "NormalAtVertices", "NormalAtTriangleVertices",
     "NormalAtQuadrilateralVertices", "TangentAtEdges"}

KnownKeywords ==
    {"MeshVersionFormatted", "Dimension", "Vertices", "End"}
        \cup ElementKeywords \cup AuxiliaryKeywords

\* the multiplier the format gives an auxiliary keyword
Multiplier(kw) ==
    IF kw \in {"Corners", "RequiredVertices", "Ridges", "RequiredEdges"} THEN 1
    ELSE IF kw = "NormalAtVertices" THEN 2
    ELSE 3

-----------------------------------------------------------------------------
(* The claims *)

\* C2: while every call of next_items succeeded, the tokens returned so far
\* are exactly the first n1 + n2 + ... tokens of the file's token sequence,
\* and the last call returned exactly the n tokens it was asked for.
C2_PullsArePrefix ==
    status = "running" =>
        /\ hist.got = SubSeq(FileTokens(file), 1, hist.asked)
        /\ Len(hist.got) = hist.asked
        /\ Len(LastPulled) = hist.last_n

\* C2 witness: three or more tokens were returned across a skipped line.
C2_Witness ==
    /\ status = "running"
    /\ hist.asked >= 3
    /\ hist.last_n >= 2
    /\ pos = 3
    /\ IsSkipLine(file[2])
    /\ Len(line) > line_ptr

\* what a run of read_buffer shows of itself: how it ended or where it waits,
\* the snapshot, the tokens it pulled and the warnings it printed, but not the
\* count of lines taken from the source
Outcome(S) ==
    [status |-> S.status, error |-> S.error, dim |-> S.dim, points |-> S.points,
     point_data |-> S.point_data, cells |-> S.cells, cell_data |-> S.cell_data,
     line |-> S.r.line, line_ptr |-> S.r.line_ptr,
     got |-> S.hist.got, mark |-> S.hist.mark, kw |-> S.hist.kw,
     warnings |-> S.hist.warnings, stop_at |-> S.hist.stop_at,
     end_seen |-> S.hist.end_seen, position |-> S.pc]

\* the file without its blank and comment lines
Unskipped(f) == SelectSeq(f, LAMBDA l : ~IsSkipLine(l))

\* C3: the blank and comment lines of a file, wherever they stand, change
\* nothing of what read_buffer does with it: the outcome on the file is the
\* outcome on the file with those lines taken out.
C3_SkippedLinesInvisible ==
    Outcome(read_from(file, eof, ReadStart(build)))
        = Outcome(read_from(Unskipped(file), eof, ReadStart(build)))

\* C3 witness: a comment or blank line stood between the tokens of one Edges
\* record, and the record was stored.
C3_Witness ==
    /\ Len(file) = 4
    /\ file[1] = "Edges\n"
    /\ file[2] = "1 2 5\n"
    /\ IsSkipLine(file[3])
    /\ file[4] = "1\n"
    /\ "line" \in DOMAIN cells
    /\ Len(cells["line"]) = 1

\* C4: once End has been processed nothing more is pulled: End stays the last
\* token taken from the stream.
C4_NothingReadAfterEnd ==
    hist.end_seen => /\ hist.kw = "End"
                     /\ hist.got[Len(hist.got)] = "End"

\* C5: when the input ends at any pull but the keyword pull, read_buffer fails
\* with the end-of-input error; it returns only when the input ends at a
\* keyword pull; and the input ends only with every line taken.
C5_EndInsideBlockFails ==
    /\ hist.stop_at \notin {"", "keyword"}
            => status = "failed" /\ error = "StopIteration"
    /\ status = "returned" => hist.stop_at = "keyword"
    /\ error = "StopIteration" => hist.stop_at \notin {"", "keyword"}
    /\ hist.stop_at # "" => eof /\ pos = Len(file) /\ status # "running"

\* C5 witness: the input ended among the coordinates of a Vertices block.
C5_Witness ==
    /\ hist.stop_at = "vertex"
    /\ hist.kw = "Vertices"
    /\ error = "StopIteration"

\* C6 as stated: a token in keyword position that is none of the known
\* keywords fails with UnknownKeyword.
C6_AnyUnknownTokenIsUnknownKeyword ==
    (hist.kw # "" /\ hist.kw \notin KnownKeywords)
        => status = "failed" /\ error = "UnknownKeyword"

\* C6: a token in keyword position that is none of the known keywords fails
\* the read and no snapshot is returned: with UnknownKeyword when the token is
\* alphabetic, with MalformedKeyword when it is not.
C6_UnknownKeywordFails ==
    (hist.kw # "" /\ hist.kw \notin KnownKeywords)
        => /\ status = "failed"
           /\ (\A i \in 1..Len(hist.kw) : Char(hist.kw, i) \in Letters)
                  => error = "UnknownKeyword"
           /\ (\E i \in 1..Len(hist.kw) : Char(hist.kw, i) \notin Letters)
                  => error = "MalformedKeyword"

\* C6 witness: Bogus follows a Vertices block that was parsed.
C6_Witness ==
    /\ hist.kw = "Bogus"
    /\ error = "UnknownKeyword"
    /\ points.bound
    /\ Len(points.rows) = 1

\* the count token of the auxiliary block whose keyword was pulled last
AuxCount == int(hist.got[hist.mark + 1]).v

\* C9 as stated: a turn of the loop that meets an auxiliary keyword with the
\* count K has taken, when it is over, 1 + K * multiplier tokens after the
\* keyword, whatever K is.
C9_TakesCountTimesMultiplier ==
    (hist.kw \in AuxiliaryKeywords /\ TurnOver)
        => Len(hist.got) - hist.mark = 1 + AuxCount * Multiplier(hist.kw)

\* the tokens next_items(n_values) takes for the count K: none for K < 0
Discarded(K, kw) == IF K >= 0 THEN K * Multiplier(kw) ELSE 0

\* C9: a turn of the loop that meets an auxiliary keyword prints one warning
\* naming the keyword and leaves the snapshot as it was, all through the turn;
\* when the turn is over it has taken, after the keyword, the count K and
\* K * multiplier more tokens, none more when K is negative, from the front
\* of the file's token sequence; and the keyword of a turn is the token next
\* after those pulled before.
C9_AuxiliaryBlockSkipped ==
    /\ [](hist.kw \in AuxiliaryKeywords
            => /\ Snapshot = [hist.before EXCEPT !.warnings = Append(@, hist.kw)]
               /\ hist.got[hist.mark] = hist.kw)
    /\ []((hist.kw \in AuxiliaryKeywords /\ TurnOver)
            => /\ hist.got = SubSeq(FileTokens(file), 1, Len(hist.got))
               /\ Len(hist.got) - hist.mark = 1 + Discarded(AuxCount, hist.kw))
    /\ [][hist'.mark # hist.mark => hist'.mark = Len(hist.got) + 1]_vars

\* C9 witness: Normals with one record was skipped: four tokens after the
\* keyword, one warning, the turn over and the loop still running.
C9_Witness ==
    /\ hist.kw = "Normals"
    /\ status = "running"
    /\ TurnOver
    /\ Len(hist.got) - hist.mark = 4
    /\ hist.warnings = <<"Normals">>

-----------------------------------------------------------------------------
(* The claims on write, and on write followed by read_buffer *)

Representable == {"line", "triangle", "quad", "tetra", "hexahedra"}

\* the families of a snapshot that write has a keyword for, by position
WrittenFamilies(m) == {i \in 1..Len(m.cells) : m.cells[i].key \in Representable}

\* the label sequences a snapshot supplies for a family, by their keys
SuppliedFor(m, key) ==
    IF key \in DOMAIN m.cell_data THEN m.cell_data[key] ELSE EmptyDict

\* the labels a round trip is to bring back: the one sequence supplied, or 1s
LabelsOrOnes(supplied, n) ==
    IF DOMAIN supplied = {} THEN [i \in 1..n |-> 1]
    ELSE supplied[CHOOSE k \in DOMAIN supplied : TRUE]

\* no point set and no written family of the snapshot has several sequences
SingleLabelled(m) ==
    /\ Cardinality(DOMAIN m.point_data) <= 1
    /\ \A i \in WrittenFamilies(m) :
          Cardinality(DOMAIN SuppliedFor(m, m.cells[i].key)) <= 1

\* the record lines write emitted for the i-th family of the snapshot: the
\* pieces that follow the family's keyword line and count line
RecordLines(m, W, i) ==
    LET at == CHOOSE c \in 1..Len(W.chunks) :
                  W.chunks[c] = medit_from_meshio[m.cells[i].key][1] \o "\n"
    IN  SubSeq(W.chunks, at + 2, at + 1 + Len(m.cells[i].data))

\* the families read_buffer is to return for a snapshot written by write
FamiliesBack(m) == {m.cells[i].key : i \in WrittenFamilies(m)}

\* C1: a snapshot of dimension >= 1 whose families are all representable and
\* whose points and families each have no or one label sequence is written
\* without failure, the text is read without failure, and what read_buffer
\* returns is the snapshot's points, its 0-based records per family and its
\* labels, all-1 sequences standing for absent ones.
C1_RoundTrip ==
    (/\ wout.status # "idle"
     /\ mesh.d >= 1
     /\ WrittenFamilies(mesh) = 1..Len(mesh.cells)
     /\ SingleLabelled(mesh))
        => /\ wout.status = "done"
           /\ status # "failed"
           /\ status = "returned"
                => /\ points.rows = mesh.points
                   /\ point_data = (0 :> LabelsOrOnes(mesh.point_data, Len(mesh.points)))
                   /\ DOMAIN cells = FamiliesBack(mesh)
                   /\ DOMAIN cell_data = FamiliesBack(mesh)
                   /\ \A i \in WrittenFamilies(mesh) :
                        /\ cells[mesh.cells[i].key] = mesh.cells[i].data
                        /\ cell_data[mesh.cells[i].key]
                             = (0 :> LabelsOrOnes(SuppliedFor(mesh, mesh.cells[i].key),
                                                  Len(mesh.cells[i].data)))

\* C7: write fails whenever the snapshot supplies more than one label
\* sequence for the points or for a family that is written.
C7_SeveralLabelsFail ==
    (wout.status # "idle" /\ ~SingleLabelled(mesh)) => wout.status = "failed"

\* C8: when no point set and no written family has several label sequences,
\* write completes, and every record line of a written family that has no
\* label sequence ends in the label 1.
C8_AbsentLabelsAreOnes ==
    (wout.status # "idle" /\ SingleLabelled(mesh))
        => /\ wout.status = "done"
           /\ \A i \in WrittenFamilies(mesh) :
                DOMAIN SuppliedFor(mesh, mesh.cells[i].key) = {}
                    => \A k \in 1..Len(mesh.cells[i].data) :
                          Words(RecordLines(mesh, wout, i)[k])
                              [Len(mesh.cells[i].data[k]) + 1] = "1"

\* C10: in every record line write emitted each index token is the stored
\* index plus 1 and the last token is the label as supplied; in every element
\* block read_buffer stored, each index is the file's token minus 1 and each
\* label the file's token; and the records read back are the records written.
C10_IndexBase ==
    /\ wout.status = "done"
         => \A i \in WrittenFamilies(mesh) : \A k \in 1..Len(mesh.cells[i].data) :
               LET rec == mesh.cells[i].data[k]
                   ws == Words(RecordLines(mesh, wout, i)[k])
               IN  /\ Len(ws) = Len(rec) + 1
                   /\ \A j \in 1..Len(rec) : int(ws[j]).v = rec[j] + 1
                   /\ int(ws[Len(rec) + 1]).v
                        = cell_labels(mesh, mesh.cells[i].key, mesh.cells[i].data).labels[k]
    /\ (hist.kw \in ElementKeywords /\ status \in {"running", "returned"})
         => LET name == meshio_from_medit[hist.kw][1]
                num == meshio_from_medit[hist.kw][2]
                tok(k, j) == int(LastPulled[1 + (k - 1) * (num + 1) + j]).v
            IN  /\ Len(cells[name]) = int(LastPulled[1]).v
                /\ \A k \in 1..Len(cells[name]) :
                     /\ \A j \in 1..num : cells[name][k][j] = tok(k, j) - 1
                     /\ cell_data[name][0][k] = tok(k, num + 1)
    /\ status = "returned"
         => \A i \in WrittenFamilies(mesh) :
               cells[mesh.cells[i].key] = mesh.cells[i].data

\* C10 witness: a triangle with an index 0 and an index 1 and the label 7 was
\* written as "1 2 1 7" and read back.
C10_Witness ==
    /\ wout.status = "done"
    /\ status = "returned"
    /\ \E i \in WrittenFamilies(mesh) :
          /\ mesh.cells[i].key = "triangle"
          /\ mesh.cells[i].data = <<<<0, 1, 0>>>>
          /\ RecordLines(mesh, wout, i) = <<"1 2 1 7\n">>
    /\ cells["triangle"] = <<<<0, 1, 0>>>>
    /\ cell_data["triangle"] = (0 :> <<7>>)

\* the families of a snapshot that write has no keyword for, in iteration order
UnknownFamilies(m) ==
    [k \in 1..Len(SelectSeq(m.cells, LAMBDA c : c.key \notin Representable)) |->
        SelectSeq(m.cells, LAMBDA c : c.key \notin Representable)[k].key]

\* the lines write is to emit for the i-th family: keyword, count, records
FamilyBlock(m, W, i) ==
    <<"\n", medit_from_meshio[m.cells[i].key][1] \o "\n",
      fmt_d(Len(m.cells[i].data)) \o "\n">> \o RecordLines(m, W, i)

\* s occurs in t as a run of consecutive pieces
OccursIn(s, t) ==
    \E at \in 0..(Len(t) - Len(s)) : SubSeq(t, at + 1, at + Len(s)) = s

\* C11: whenever write is given a snapshot with a family it has no keyword
\* for, and no point set or written family of it has several label sequences,
\* the write completes; no piece written names such a family; the warnings
\* name these families in order, one each; every representable family stands
\* in the output in full, with all its records; and End is the last piece.
C11_UnknownFamilySkipped ==
    (/\ wout.status # "idle"
     /\ Len(UnknownFamilies(mesh)) > 0
     /\ SingleLabelled(mesh))
        => /\ wout.status = "done"
           /\ wout.warnings = UnknownFamilies(mesh)
           /\ \A c \in 1..Len(wout.chunks) :
                 \A k \in 1..Len(UnknownFamilies(mesh)) :
                    ~OccursIn(UnknownFamilies(mesh)[k], wout.chunks[c])
           /\ wout.chunks[Len(wout.chunks)] = "\nEnd\n"
           /\ \A i \in WrittenFamilies(mesh) :
                 /\ OccursIn(FamilyBlock(mesh, wout, i), wout.chunks)
                 /\ Len(RecordLines(mesh, wout, i)) = Len(mesh.cells[i].data)

-----------------------------------------------------------------------------
(* Further claims on read_buffer *)

\* Vertices met while the dimension is 0 fails with DimensionNotSet, the
\* count not being pulled
VerticesNeedDimension ==
    (hist.kw = "Vertices" /\ dim = 0)
        => /\ status = "failed"
           /\ error = "DimensionNotSet"
           /\ hist.mark = Len(hist.got)

\* C12: Vertices met while the dimension is 0 fails with DimensionNotSet
\* before the count is pulled, and the dimension a Dimension keyword has
\* stored is a positive integer.
C12_DimensionPositive ==
    /\ VerticesNeedDimension
    /\ (hist.kw = "Dimension" /\ status = "running" /\ TurnOver) => dim > 0
    /\ dim >= 0

\* a Vertices or element block whose count is 0 has just been read
ZeroCountBlock ==
    /\ status = "running"
    /\ TurnOver
    /\ hist.kw \in ElementKeywords \cup {"Vertices"}
    /\ int(hist.got[hist.mark + 1]).v = 0

\* C13: a turn of the loop that meets Vertices or an element keyword with
\* count 0 pulls the count and nothing after it, leaves an empty point set
\* with empty labels, or an empty record table with an empty label sequence
\* for the family, and the rest of the snapshot as it was; and the next turn
\* takes as its keyword the token next after the count.
C13_ZeroCountBlocks ==
    /\ [](ZeroCountBlock
            => /\ Len(hist.got) = hist.mark + 1
               /\ hist.got = SubSeq(FileTokens(file), 1, Len(hist.got))
               /\ hist.kw = "Vertices"
                    => /\ points = [bound |-> TRUE, rows |-> <<>>]
                       /\ point_data = (0 :> <<>>)
                       /\ cells = hist.before.cells
                       /\ cell_data = hist.before.cell_data
               /\ hist.kw \in ElementKeywords
                    => /\ cells[meshio_from_medit[hist.kw][1]] = <<>>
                       /\ cell_data[meshio_from_medit[hist.kw][1]] = (0 :> <<>>)
                       /\ points = hist.before.points
                       /\ point_data = hist.before.point_data)
    /\ [][(ZeroCountBlock /\ hist'.mark # hist.mark)
            => /\ hist'.mark = hist.mark + 2
               /\ hist'.kw = FileTokens(file)[hist.mark + 2]]_vars

\* C13 witness: Edges with count 0 left an empty line family, and the token
\* after the count, End, was taken as the next keyword.
C13_Witness ==
    /\ hist.got = <<"Edges", "0", "End">>
    /\ hist.kw = "End"
    /\ cells = [line |-> <<>>]
    /\ cell_data = [line |-> (0 :> <<>>)]
    /\ status = "running"
    /\ TurnOver

\* the points and point labels the worked example is to give
ExamplePoints ==
    /\ points.rows = <<<<Finite(1, 0, 0), Finite(1, 0, 0)>>,
                       <<Finite(1, 1, 0), Finite(1, 0, 0)>>>>
    /\ point_data = (0 :> <<1, 2>>)

\* C14 as stated: the worked example is read without failure and returns the
\* points (0.0, 0.0), (1.0, 0.0), the point labels 1, 2, the one triangle
\* (0, 1, 2) and the cell label 5.
C14_ExampleAsStated ==
    /\ status # "failed"
    /\ status = "returned"
         => /\ ExamplePoints
            /\ cells = [triangle |-> <<<<0, 1, 2>>>>]
            /\ cell_data = [triangle |-> (0 :> <<5>>)]

\* C14: the worked example is read without failure and returns the points
\* (0.0, 0.0), (1.0, 0.0), the point labels 1, 2, the one triangle (0, 1, 1),
\* each index of the record 1 2 2 being lowered by one, and the cell label 5.
C14_Example ==
    /\ status # "failed"
    /\ status = "returned"
         => /\ ExamplePoints
            /\ cells = [triangle |-> <<<<0, 1, 1>>>>]
            /\ cell_data = [triangle |-> (0 :> <<5>>)]

\* C14 witness: the example, with a comment line before its triangle record,
\* was read to its end and returned.
C14_Witness ==
    /\ status = "returned"
    /\ hist.end_seen
    /\ \E i \in 2..Len(file) : file[i] = "1 2 2 5\n" /\ file[i - 1] = "  # End\n"
    /\ Len(hist.got) = Len(FileTokens(file))
    /\ cells = [triangle |-> <<<<0, 1, 1>>>>]

\* the entry of a table for a key, or the empty sequence when it has none
EntryOr(d, key, none) == IF key \in DOMAIN d THEN d[key] ELSE none

\* C15: a turn of the loop that has read an element block of n records leaves
\* the family's table as the turn found it with the n records added at its
\* end, and the family's label sequence as the turn found it with their n
\* labels added at its end.
C15_RecordsAccumulate ==
    (hist.kw \in ElementKeywords /\ status = "running" /\ TurnOver)
        => LET name == meshio_from_medit[hist.kw][1]
               before == EntryOr(hist.before.cells, name, <<>>)
               labels == EntryOr(hist.before.cell_data, name, (0 :> <<>>))[0]
               n == int(hist.got[hist.mark + 1]).v
           IN  /\ Len(cells[name]) = Len(before) + n
               /\ SubSeq(cells[name], 1, Len(before)) = before
               /\ Len(cell_data[name][0]) = Len(labels) + n
               /\ SubSeq(cell_data[name][0], 1, Len(labels)) = labels

-----------------------------------------------------------------------------
(* Further claims on write *)

\* the keyword and the arity the format gives a family
FamilyKeyword(key) ==
    CASE key = "line" -> "Edges"
      [] key = "triangle" -> "Triangles"
      [] key = "quad" -> "Quadrilaterals"
      [] key = "tetra" -> "Tetrahedra"
      [] key = "hexahedra" -> "Hexahedra"

FamilyArity(key) ==
    CASE key = "line" -> 2
      [] key = "triangle" -> 3
      [] key = "quad" -> 4
      [] key = "tetra" -> 4
      [] key = "hexahedra" -> 8

\* the lines of the written file that are not blank separators
Emitted == SelectSeq(file, LAMBDA l : l # "\n")

\* how many lines the first i families of the snapshot take in the file
RECURSIVE FamilyLines(_, _)
FamilyLines(m, i) ==
    IF i = 0 THEN 0
    ELSE FamilyLines(m, i - 1) +
         (IF m.cells[i].key \in Representable THEN 2 + Len(m.cells[i].data) ELSE 0)

\* the words of a line are integers
AllIntegers(l) == \A j \in 1..Len(Words(l)) : int(Words(l)[j]).ok

\* C16: the file of a completed write is, blank separators apart: the version
\* line, the producer comment, the Dimension line, Vertices, the point count
\* and that many point lines of d coordinates and a label; then for each
\* written family in iteration order its keyword, its count and that many
\* record lines of arity + 1 integers; then End, which stands nowhere else.
C16_EmissionOrder ==
    wout.status = "done"
        => LET n == Len(mesh.points)
               at(i) == 5 + n + FamilyLines(mesh, i - 1)
           IN  /\ Len(Emitted) = 5 + n + FamilyLines(mesh, Len(mesh.cells)) + 1
               /\ Emitted[1] = "MeshVersionFormatted 1\n"
               /\ Emitted[2] = "# Created by meshio\n"
               /\ Words(Emitted[3]) = <<"Dimension", fmt_d(mesh.d)>>
               /\ Emitted[4] = "Vertices\n"
               /\ Words(Emitted[5]) = <<fmt_d(n)>>
               /\ \A k \in 1..n :
                     /\ Len(Words(Emitted[5 + k])) = mesh.d + 1
                     /\ int(Words(Emitted[5 + k])[mesh.d + 1]).ok
               /\ \A i \in WrittenFamilies(mesh) :
                     /\ Emitted[at(i) + 1] = FamilyKeyword(mesh.cells[i].key) \o "\n"
                     /\ Words(Emitted[at(i) + 2]) = <<fmt_d(Len(mesh.cells[i].data))>>
                     /\ \A k \in 1..Len(mesh.cells[i].data) :
                           /\ Len(Words(Emitted[at(i) + 2 + k]))
                                = FamilyArity(mesh.cells[i].key) + 1
                           /\ AllIntegers(Emitted[at(i) + 2 + k])
               /\ \A c \in 1..Len(Emitted) :
                     Words(Emitted[c]) = <<"End">> <=> c = Len(Emitted)

\* C16 witness: a completed write of a snapshot with a point, a triangle
\* record and an edge record: thirteen lines, End the last.
C16_Witness ==
    /\ wout.status = "done"
    /\ Len(mesh.cells) = 2
    /\ mesh.cells[1].key = "triangle" /\ Len(mesh.cells[1].data) = 1
    /\ mesh.cells[2].key = "line" /\ Len(mesh.cells[2].data) = 1
    /\ Len(Emitted) = 13
    /\ Emitted[7] = "Triangles\n"
    /\ Emitted[10] = "Edges\n"
    /\ Emitted[13] = "End\n"

-----------------------------------------------------------------------------
(* Further claims on the token stream *)

\* C17: the cursor lies within the line, 0 <= _line_ptr <= len(_line); the
\* line held is the tokens of the file line loaded last, which is neither
\* blank nor a comment; and a call that loads lines returns the rest of the
\* line held, then every token of the lines passed over that are neither
\* blank nor comments, then the first tokens of the line it loaded last, at
\* least one: no line is loaded before the cursor is at the end of the line,
\* and no token is dropped.
C17_CursorWithinLine ==
    /\ [](0 <= line_ptr /\ line_ptr <= Len(line))
    /\ [](status = "running" =>
            IF pos = 0 THEN line = <<>>
            ELSE ~IsSkipLine(file[pos]) /\ line = Words(file[pos]))
    /\ [][status' = "running" =>
            IF pos' = pos
            THEN /\ line' = line
                 /\ line_ptr' >= line_ptr
                 /\ hist'.got = hist.got \o SubSeq(line, line_ptr + 1, line_ptr')
            ELSE /\ pos' > pos
                 /\ line_ptr' >= 1
                 /\ hist'.got = hist.got
                        \o SubSeq(line, line_ptr + 1, Len(line))
                        \o FileTokens(SubSeq(file, pos + 1, pos' - 1))
                        \o SubSeq(line', 1, line_ptr')]_vars

\* C17 witness: one call took the last token of a line, passed a comment line
\* and took the first token of the next line, leaving a token of it.
C17_Witness ==
    /\ status = "running"
    /\ pos = 3
    /\ IsSkipLine(file[2])
    /\ hist.last_n = 2
    /\ Len(hist.got) = Len(Words(file[1])) + 1
    /\ line_ptr = 1
    /\ Len(line) = 2

-----------------------------------------------------------------------------
(* Termination, and the return without points *)

\* C18: read_buffer ends, returned or failed, once the line source has
\* ended; every step it takes ends the read, returns or gathers a token,
\* takes a line from the source or comes to wait for one, and once the source
\* has ended it waits no more; every turn of its loop pulls its keyword; a
\* block that was read took its count and, for each record, the tokens of the
\* record, more than one; and next_items(n) with n <= 0 returns no token and
\* leaves the reader as it was.
C18_Terminates ==
    /\ <>(status # "running")
    /\ [][(file' = file /\ eof' = eof)
            => \/ status' # "running"
               \/ Len(hist'.got) + Len(pc'.items) > Len(hist.got) + Len(pc.items)
               \/ pos' > pos
               \/ pc.wait = "" /\ pc'.wait # ""]_vars
    /\ [][(file' = file /\ eof' = eof /\ eof) => pc'.wait = ""]_vars
    /\ [][hist'.mark # hist.mark => Len(hist'.got) > Len(hist.got)]_vars
    /\ []((status = "running" /\ TurnOver /\ hist.kw = "Vertices")
            => /\ dim + 1 > 1
               /\ Len(points.rows) = int(hist.got[hist.mark + 1]).v
               /\ Len(LastPulled) = 1 + Len(points.rows) * (dim + 1))
    /\ []((status = "running" /\ TurnOver /\ hist.kw \in ElementKeywords)
            => /\ Len(cells[meshio_from_medit[hist.kw][1]])
                    = int(hist.got[hist.mark + 1]).v
               /\ Len(LastPulled)
                    = 1 + Len(cells[meshio_from_medit[hist.kw][1]])
                            * (meshio_from_medit[hist.kw][2] + 1))
    /\ [](\A n \in (0 - MaxPull)..0 :
            next_items(file, eof, Current.r, n)
                = [st |-> "ok", items |-> <<>>, r |-> Current.r])

\* C18 witness: the source ended inside a Vertices block after three lines
\* and a comment line, and read_buffer ended with a failure.
C18_Witness ==
    /\ eof
    /\ Len(file) = 4
    /\ NumSkips(file) = 1
    /\ hist.kw = "Vertices"
    /\ Len(hist.got) = Len(FileTokens(file))
    /\ status = "failed"

\* C19: points is bound, and changed, only in a turn of the loop whose keyword
\* is Vertices; read_buffer returns only with points bound; and when the
\* input ends at a keyword pull with no Vertices block read, read_buffer
\* fails, points never having been bound, and returns nothing.
C19_NoReturnWithoutVertices ==
    /\ [][points' # points
            => /\ hist'.kw = "Vertices"
               /\ pc.keyword = "Vertices" \/ hist'.mark # hist.mark]_vars
    /\ [](status = "returned" => (points.bound /\ 0 \in DOMAIN point_data))
    /\ []((hist.stop_at = "keyword" /\ ~points.bound)
            => (status = "failed" /\ error = "UnboundLocalError"))
    /\ [](error = "UnboundLocalError"
            => (hist.stop_at = "keyword" /\ points = [bound |-> FALSE, rows |-> <<>>]))

\* C19 witness: an Edges block and End, then the end of the input: the read
\* failed with points unbound.
C19_Witness ==
    /\ hist.got = <<"Edges", "1", "1", "2", "5", "End">>
    /\ hist.end_seen
    /\ eof
    /\ cells = [line |-> <<<<0, 1>>>>]
    /\ status = "failed"
    /\ error = "UnboundLocalError"

=============================================================================
